---- MODULE Spec2Model ----
(***************************************************************************)
(* Model of innstereo/dataview_classes.py: the DataTreeView base class     *)
(* (input validators, Tab navigation, selection-changed redraw) and the    *)
(* edit-commit handlers of its five subclasses.                            *)
(*                                                                         *)
(* Strings are sequences of one-character strings (<<"3","6","0">> is the  *)
(* text "360").  Finite floats are integers counted in units of 1/Unit;    *)
(* the arithmetic is exact (of the binary rounding of Python floats only   *)
(* the absorption of +-360 by a huge float is modelled, as Huge).  Rows    *)
(* and columns are numbered from 0, as in the source.                      *)
(***************************************************************************)
EXTENDS Integers, Sequences, FiniteSets, TLC

\* ------------------------------------------------------------------ bounds
\* longest numeric text enumerated for the validators
MaxLen == 4
\* longest sense text enumerated for validate_sense
MaxSenseLen == 3
\* rows of the store a view is constructed with
MaxInitRows == 1
\* rows the store may grow to by Tab navigation
MaxRows == 3
\* store writes by edit handlers in one behaviour
MaxWrites == 2
\* GLib timeouts pending at once
MaxPending == 1
\* store writes by edit handlers in one behaviour on a store of many rows
MaxFrameWrites == 1

\* number of decimal places a text of MaxLen characters can carry
Prec == MaxLen - 1
Unit == 10 ^ Prec
\* a stored number carries one decimal place more than any text does
FineUnit == 10 * Unit

\* ---------------------------------------------------------- Python values
\* Every Python value is a record with the same three fields.
Float(n) == [tag |-> "float", num |-> n, str |-> << >>]
NaN == [tag |-> "nan", num |-> 0, str |-> << >>]
Inf(sign) == [tag |-> "inf", num |-> sign, str |-> << >>]
\* a finite float so large that adding or subtracting 360 rounds back to it
\* (1e19 - 360 == 1e19 in double precision)
Huge(sign) == [tag |-> "huge", num |-> sign, str |-> << >>]
Str(s) == [tag |-> "str", num |-> 0, str |-> s]
PyInt(n) == [tag |-> "int", num |-> n, str |-> << >>]
None == [tag |-> "None", num |-> 0, str |-> << >>]
\* the exception raised by float() / int() on a text they do not accept
ValueError == [tag |-> "ValueError", num |-> 0, str |-> << >>]
\* not a value: the call has not returned (pending, or its loop never ends)
NotReturned == [tag |-> "NotReturned", num |-> 0, str |-> << >>]

\* x < n and x > n for a float x and a finite n, with IEEE semantics:
\* every comparison with nan is false, -inf is below and inf above all.
Lt(x, n) ==
    CASE x.tag = "float" -> x.num < n
      [] x.tag \in {"inf", "huge"} -> x.num < 0
      [] OTHER -> FALSE

Gt(x, n) ==
    CASE x.tag = "float" -> x.num > n
      [] x.tag \in {"inf", "huge"} -> x.num > 0
      [] OTHER -> FALSE

\* x + n for a float x and a finite n: inf, nan and the huge floats absorb
\* the addend.
Add(x, n) == IF x.tag = "float" THEN Float(x.num + n) ELSE x

\* ----------------------------------------------------------------- texts
Digits == <<"0", "1", "2", "3", "4", "5", "6", "7", "8", "9">>
IsDigit(c) == \E i \in 1..10 : Digits[i] = c
DigitVal(c) == (CHOOSE i \in 1..10 : Digits[i] = c) - 1

RECURSIVE DigitsValue(_)
DigitsValue(s) ==
    IF s = << >> THEN 0
    ELSE 10 * DigitsValue(SubSeq(s, 1, Len(s) - 1)) + DigitVal(s[Len(s)])

\* inp.replace(",", ".")
Replace(s) == [i \in 1..Len(s) |-> IF s[i] = "," THEN "." ELSE s[i]]

\* Python's float(text) on the texts of this model: an optional sign, then
\* "nan", "inf", or decimal digits with at most one "." and at least one
\* digit; and the one text with an exponent, "1e19".  (Blanks and
\* underscores are not in the alphabets.)
ParseFloat(s) ==
    LET signed == s # << >> /\ s[1] \in {"-", "+"}
        neg == s # << >> /\ s[1] = "-"
        body == IF signed THEN Tail(s) ELSE s
        dots == {i \in 1..Len(body) : body[i] = "."}
        dot == IF dots = {} THEN Len(body) + 1 ELSE CHOOSE i \in dots : TRUE
        whole == SubSeq(body, 1, dot - 1)
        frac == SubSeq(body, dot + 1, Len(body))
        mant == DigitsValue(whole \o frac)
    IN  IF body = <<"n", "a", "n">> THEN NaN
        ELSE IF body = <<"i", "n", "f">> THEN Inf(IF neg THEN -1 ELSE 1)
        ELSE IF body = <<"1", "e", "1", "9">> THEN Huge(IF neg THEN -1 ELSE 1)
        ELSE IF /\ Cardinality(dots) <= 1
                /\ \A i \in 1..Len(body) : body[i] = "." \/ IsDigit(body[i])
                /\ Len(whole) + Len(frac) >= 1
             THEN Float((IF neg THEN -1 ELSE 1) * mant * 10 ^ (Prec - Len(frac)))
        ELSE ValueError

\* Python's int(text): an optional sign and at least one decimal digit.
ParseInt(s) ==
    LET signed == s # << >> /\ s[1] \in {"-", "+"}
        neg == s # << >> /\ s[1] = "-"
        body == IF signed THEN Tail(s) ELSE s
    IN  IF body # << >> /\ \A i \in 1..Len(body) : IsDigit(body[i])
        THEN PyInt((IF neg THEN -1 ELSE 1) * DigitsValue(body))
        ELSE ValueError

\* ------------------------------------------------------------- validators
\* The while loop of the "dir" branch.  An iteration that leaves inp as it
\* was (inf - 360 = inf) repeats for ever: the call does not return.
RECURSIVE WrapDir(_)
WrapDir(inp) ==
    IF Lt(inp, 0) \/ Gt(inp, 360 * Unit)
    THEN LET next == IF Lt(inp, 0) THEN Add(inp, 360 * Unit)
                     ELSE Add(inp, -360 * Unit)
         IN  IF next = inp THEN NotReturned ELSE WrapDir(next)
    ELSE inp

\* lines 132-153: the branch on inp_type, for a parsed number
CheckBounds(num, inp_type) ==
    CASE inp_type = "dir" -> WrapDir(num)
      [] inp_type = "dip" ->
           IF Lt(num, 0) \/ Gt(num, 90 * Unit) THEN None ELSE num
      [] inp_type = "vector" ->
           IF Lt(num, 0) \/ Gt(num, 1 * Unit) THEN None ELSE num
      [] inp_type = "angle" ->
           IF Lt(num, 0) \/ Gt(num, 360 * Unit) THEN None ELSE num
      [] OTHER -> None

\* mutant: the empty text is handed to float() like any other text
validate_numeric_input_no_empty(inp, inp_type) ==
    LET num == ParseFloat(Replace(inp))
    IN  IF num = ValueError THEN None ELSE CheckBounds(num, inp_type)

validate_numeric_input(inp, inp_type) ==
    IF inp = << >> THEN Float(0)
    ELSE LET num == ParseFloat(Replace(inp))
         IN  IF num = ValueError THEN None ELSE CheckBounds(num, inp_type)

val_inp == {<< >>, <<"u", "k">>, <<"u", "p">>, <<"d", "n">>,
            <<"d", "e", "x">>, <<"s", "i", "n">>}

\* mutant: the indices of "dex" and "sin" are exchanged
validate_sense_swapped(inp) ==
    LET n == ParseInt(inp)
    IN  IF n # ValueError
        THEN CASE n.num = 0 -> Str(<<"u", "k">>)
               [] n.num = 1 -> Str(<<"u", "p">>)
               [] n.num = 2 -> Str(<<"d", "n">>)
               [] n.num = 3 -> Str(<<"s", "i", "n">>)
               [] n.num = 4 -> Str(<<"d", "e", "x">>)
               [] OTHER -> None
        ELSE IF inp \in val_inp THEN Str(inp) ELSE None

validate_sense(inp) ==
    LET n == ParseInt(inp)
    IN  IF n # ValueError
        THEN CASE n.num = 0 -> Str(<<"u", "k">>)
               [] n.num = 1 -> Str(<<"u", "p">>)
               [] n.num = 2 -> Str(<<"d", "n">>)
               [] n.num = 3 -> Str(<<"d", "e", "x">>)
               [] n.num = 4 -> Str(<<"s", "i", "n">>)
               [] OTHER -> None
        ELSE IF inp \in val_inp THEN Str(inp) ELSE None

\* ------------------------------------------------------------------ state
VARIABLES
    view,          \* the class of the view: fixed at construction
    store,         \* self.store: rows 0..n-1, each a function of column -> value
    highlight,     \* what self.settings.get_highlight() returns
    lyr_obj,       \* self.lyr_obj: None, or the layer type of the layer object
    cursor,        \* the tree view's cursor (treeview.get_cursor())
    timeouts,      \* GLib timeouts scheduled and not yet run
    pc,            \* "idle", "called" (a validator call not yet run), "hung"
    call,          \* the last call: its name and arguments
    ret,           \* what the last call returned
    trace,         \* the callbacks and store writes of the last call, in order
    edit_writes,   \* store writes made by edit handlers so far
    edit_redraws,  \* redraw calls made by edit handlers so far
    number         \* the stored number a cell displays, in units of 1/FineUnit

vars == <<view, store, highlight, lyr_obj, cursor, timeouts, pc, call, ret,
          trace, edit_writes, edit_redraws, number>>

Views == {"PlaneDataView", "FaultPlaneDataView", "LineDataView",
          "SmallCircleDataView", "EigenVectorView"}

\* the number of columns each __init__ appends (all visible)
NColumns(v) == IF v = "FaultPlaneDataView" THEN 5 ELSE 3

\* the layer type of the layer a view of class v belongs to
LayerType(v) ==
    CASE v = "PlaneDataView" -> "plane"
      [] v = "FaultPlaneDataView" -> "faultplane"
      [] v = "LineDataView" -> "line"
      [] v = "SmallCircleDataView" -> "smallcircle"
      [] v = "EigenVectorView" -> "eigenvector"

\* the row add_feature appends for a layer type: zeros and an empty text
BlankRow(lyr_type) ==
    CASE lyr_type = "plane" ->
           [c \in 0..2 |-> IF c = 2 THEN Str(<< >>) ELSE Float(0)]
      [] lyr_type = "faultplane" ->
           [c \in 0..4 |-> IF c = 4 THEN Str(<< >>) ELSE Float(0)]
      [] lyr_type = "line" ->
           [c \in 0..2 |-> IF c = 2 THEN Str(<< >>) ELSE Float(0)]
      [] lyr_type = "smallcircle" -> [c \in 0..2 |-> Float(0)]
      [] lyr_type = "eigenvector" -> [c \in 0..2 |-> Float(0)]

\* a row with every float field on the upper edge of its range
EdgeRow(v) ==
    CASE v = "PlaneDataView" ->
           [c \in 0..2 |-> CASE c = 0 -> Float(360 * Unit - 1)
                             [] c = 1 -> Float(90 * Unit)
                             [] c = 2 -> Str(<<"n">>)]
      [] v = "FaultPlaneDataView" ->
           [c \in 0..4 |-> CASE c \in {0, 2} -> Float(360 * Unit - 1)
                             [] c \in {1, 3} -> Float(90 * Unit)
                             [] c = 4 -> Str(<<"s", "i", "n">>)]
      [] v = "LineDataView" ->
           [c \in 0..2 |-> CASE c = 0 -> Float(360 * Unit - 1)
                             [] c = 1 -> Float(90 * Unit)
                             [] c = 2 -> Str(<<"u", "p">>)]
      [] v = "SmallCircleDataView" ->
           [c \in 0..2 |-> CASE c = 0 -> Float(360 * Unit - 1)
                             [] c = 1 -> Float(90 * Unit)
                             [] c = 2 -> Float(360 * Unit)]
      [] v = "EigenVectorView" ->
           [c \in 0..2 |-> CASE c = 0 -> Float(360 * Unit - 1)
                             [] c = 1 -> Float(90 * Unit)
                             [] c = 2 -> Float(1 * Unit)]

NRows(st) == Cardinality(DOMAIN st)
AppendRow(st, row) ==
    [p \in 0..NRows(st) |-> IF p < NRows(st) THEN st[p] ELSE row]

InitStores(v) ==
    {[p \in 0..(n - 1) |-> IF p = 0 THEN r ELSE BlankRow(LayerType(v))] :
        n \in 1..MaxInitRows, r \in {BlankRow(LayerType(v)), EdgeRow(v)}}

NoCall == [name |-> "", path |-> 0, inp |-> << >>, inp_type |-> "", keyname |-> ""]
NoCursor == [path |-> -1, col |-> -1, editing |-> FALSE]

\* __init__: the state of a view after construction
Init ==
    /\ view \in Views
    /\ store \in InitStores(view)
    /\ highlight \in BOOLEAN
    /\ lyr_obj = "None"
    /\ cursor = NoCursor
    /\ timeouts = << >>
    /\ pc = "idle"
    /\ call = NoCall
    /\ ret = NotReturned
    /\ trace = << >>
    /\ edit_writes = 0
    /\ edit_redraws = 0
    /\ number = 0

\* ---------------------------------------------------------- edit handlers
\* The body shared by every validated renderer_*_edited handler:
\*     new = validate(new_string)
\*     if new is not None: self.store[path][col] = new; self.redraw(); return new
\*     else: return None
\* A validator call that never returns leaves the handler hanging.
Commit(name, path, col, new_string, new_value) ==
    /\ pc = "idle"
    /\ path \in DOMAIN store
    /\ edit_writes < MaxWrites
    /\ call' = [name |-> name, path |-> path, inp |-> new_string,
                inp_type |-> "", keyname |-> ""]
    /\ IF new_value = NotReturned
       THEN /\ pc' = "hung"
            /\ ret' = NotReturned
            /\ trace' = << >>
            /\ UNCHANGED <<store, edit_writes, edit_redraws>>
       ELSE IF new_value # None
       THEN /\ store' = [store EXCEPT ![path][col] = new_value]
            /\ trace' = <<"store", "redraw">>
            /\ ret' = new_value
            /\ edit_writes' = edit_writes + 1
            /\ edit_redraws' = edit_redraws + 1
            /\ pc' = "idle"
       ELSE /\ ret' = None
            /\ trace' = << >>
            /\ pc' = "idle"
            /\ UNCHANGED <<store, edit_writes, edit_redraws>>
    /\ UNCHANGED <<number, view, highlight, lyr_obj, cursor, timeouts>>

PlaneDataView_renderer_dir_edited(path, new_string) ==
    /\ view = "PlaneDataView"
    /\ Commit("renderer_dir_edited", path, 0, new_string,
              validate_numeric_input(new_string, "dir"))

PlaneDataView_renderer_dip_edited(path, new_string) ==
    /\ view = "PlaneDataView"
    /\ Commit("renderer_dip_edited", path, 1, new_string,
              validate_numeric_input(new_string, "dip"))

\* mutant: the stratigraphy edit writes the store and forgets the redraw
PlaneDataView_renderer_strat_edited_no_redraw(path, new_string) ==
    /\ view = "PlaneDataView"
    /\ pc = "idle"
    /\ path \in DOMAIN store
    /\ edit_writes < MaxWrites
    /\ call' = [name |-> "renderer_strat_edited", path |-> path,
                inp |-> new_string, inp_type |-> "", keyname |-> ""]
    /\ store' = [store EXCEPT ![path][2] = Str(new_string)]
    /\ trace' = <<"store">>
    /\ ret' = None
    /\ edit_writes' = edit_writes + 1
    /\ UNCHANGED <<number, view, highlight, lyr_obj, cursor, timeouts, pc, edit_redraws>>

\* the stratigraphy column takes the raw text, and returns nothing
PlaneDataView_renderer_strat_edited(path, new_string) ==
    /\ view = "PlaneDataView"
    /\ pc = "idle"
    /\ path \in DOMAIN store
    /\ edit_writes < MaxWrites
    /\ call' = [name |-> "renderer_strat_edited", path |-> path,
                inp |-> new_string, inp_type |-> "", keyname |-> ""]
    /\ store' = [store EXCEPT ![path][2] = Str(new_string)]
    /\ trace' = <<"store", "redraw">>
    /\ ret' = None
    /\ edit_writes' = edit_writes + 1
    /\ edit_redraws' = edit_redraws + 1
    /\ UNCHANGED <<number, view, highlight, lyr_obj, cursor, timeouts, pc>>

FaultPlaneDataView_renderer_dir_edited(path, new_string) ==
    /\ view = "FaultPlaneDataView"
    /\ Commit("renderer_dir_edited", path, 0, new_string,
              validate_numeric_input(new_string, "dir"))

FaultPlaneDataView_renderer_dip_edited(path, new_string) ==
    /\ view = "FaultPlaneDataView"
    /\ Commit("renderer_dip_edited", path, 1, new_string,
              validate_numeric_input(new_string, "dip"))

\* mutant: the lineation dip-direction is written to the plane's column
FaultPlaneDataView_renderer_ldir_edited_col0(path, new_string) ==
    /\ view = "FaultPlaneDataView"
    /\ Commit("renderer_ldir_edited", path, 0, new_string,
              validate_numeric_input(new_string, "dir"))

FaultPlaneDataView_renderer_ldir_edited(path, new_string) ==
    /\ view = "FaultPlaneDataView"
    /\ Commit("renderer_ldir_edited", path, 2, new_string,
              validate_numeric_input(new_string, "dir"))

FaultPlaneDataView_renderer_ldip_edited(path, new_string) ==
    /\ view = "FaultPlaneDataView"
    /\ Commit("renderer_ldip_edited", path, 3, new_string,
              validate_numeric_input(new_string, "dip"))

\* mutant: validate_sense only gates the edit, the text is stored as typed
FaultPlaneDataView_renderer_sense_edited_as_typed(path, new_string) ==
    /\ view = "FaultPlaneDataView"
    /\ Commit("renderer_sense_edited", path, 4, new_string,
              IF validate_sense(new_string) = None THEN None
              ELSE Str(new_string))

FaultPlaneDataView_renderer_sense_edited(path, new_string) ==
    /\ view = "FaultPlaneDataView"
    /\ Commit("renderer_sense_edited", path, 4, new_string,
              validate_sense(new_string))

LineDataView_renderer_dir_edited(path, new_string) ==
    /\ view = "LineDataView"
    /\ Commit("renderer_dir_edited", path, 0, new_string,
              validate_numeric_input(new_string, "dir"))

LineDataView_renderer_dip_edited(path, new_string) ==
    /\ view = "LineDataView"
    /\ Commit("renderer_dip_edited", path, 1, new_string,
              validate_numeric_input(new_string, "dip"))

\* mutant: the sense column takes the raw text, as the docstring says
LineDataView_renderer_sense_edited_raw(path, new_string) ==
    /\ view = "LineDataView"
    /\ Commit("renderer_sense_edited", path, 2, new_string, Str(new_string))

LineDataView_renderer_sense_edited(path, new_string) ==
    /\ view = "LineDataView"
    /\ Commit("renderer_sense_edited", path, 2, new_string,
              validate_sense(new_string))

SmallCircleDataView_renderer_dir_edited(path, new_string) ==
    /\ view = "SmallCircleDataView"
    /\ Commit("renderer_dir_edited", path, 0, new_string,
              validate_numeric_input(new_string, "dir"))

SmallCircleDataView_renderer_dip_edited(path, new_string) ==
    /\ view = "SmallCircleDataView"
    /\ Commit("renderer_dip_edited", path, 1, new_string,
              validate_numeric_input(new_string, "dip"))

SmallCircleDataView_renderer_angle_edited(path, new_string) ==
    /\ view = "SmallCircleDataView"
    /\ Commit("renderer_angle_edited", path, 2, new_string,
              validate_numeric_input(new_string, "angle"))

EigenVectorView_renderer_dir_edited(path, new_string) ==
    /\ view = "EigenVectorView"
    /\ Commit("renderer_dir_edited", path, 0, new_string,
              validate_numeric_input(new_string, "dir"))

EigenVectorView_renderer_dip_edited(path, new_string) ==
    /\ view = "EigenVectorView"
    /\ Commit("renderer_dip_edited", path, 1, new_string,
              validate_numeric_input(new_string, "dip"))

EigenVectorView_renderer_value_edited(path, new_string) ==
    /\ view = "EigenVectorView"
    /\ Commit("renderer_value_edited", path, 2, new_string,
              validate_numeric_input(new_string, "vector"))

\* ------------------------------------------------------ selection changed
\* mutant: the redraw does not depend on the highlight setting
data_selection_changed_always ==
    /\ pc = "idle"
    /\ call' = [name |-> "data_selection_changed", path |-> 0, inp |-> << >>,
                inp_type |-> "", keyname |-> ""]
    /\ trace' = <<"redraw">>
    /\ ret' = None
    /\ UNCHANGED <<number, view, store, highlight, lyr_obj, cursor, timeouts, pc,
                   edit_writes, edit_redraws>>

data_selection_changed ==
    /\ pc = "idle"
    /\ call' = [name |-> "data_selection_changed", path |-> 0, inp |-> << >>,
                inp_type |-> "", keyname |-> ""]
    /\ trace' = IF highlight = TRUE THEN <<"redraw">> ELSE << >>
    /\ ret' = None
    /\ UNCHANGED <<number, view, store, highlight, lyr_obj, cursor, timeouts, pc,
                   edit_writes, edit_redraws>>

\* the texts typed into numeric cells, sense cells and stratigraphy cells
NumericStrings ==
    { << >>, <<"-">>, <<"3", "6", "0">>, <<"4", "0", "0">>, <<"0", ",", "5">>,
      <<"n", "a", "n">>, <<"i", "n", "f">> }

SenseStrings == { << >>, <<"2">>, <<"9">>, <<"d", "e", "x">>, <<"x", "y", "z">> }

StratStrings == { << >>, <<"n">>, <<"4", "0", "0">> }

NumericEditOn(paths) ==
    \E path \in paths, new_string \in NumericStrings :
         \/ PlaneDataView_renderer_dir_edited(path, new_string)
         \/ PlaneDataView_renderer_dip_edited(path, new_string)
         \/ FaultPlaneDataView_renderer_dir_edited(path, new_string)
         \/ FaultPlaneDataView_renderer_dip_edited(path, new_string)
         \/ FaultPlaneDataView_renderer_ldir_edited(path, new_string)
         \/ FaultPlaneDataView_renderer_ldip_edited(path, new_string)
         \/ LineDataView_renderer_dir_edited(path, new_string)
         \/ LineDataView_renderer_dip_edited(path, new_string)
         \/ SmallCircleDataView_renderer_dir_edited(path, new_string)
         \/ SmallCircleDataView_renderer_dip_edited(path, new_string)
         \/ SmallCircleDataView_renderer_angle_edited(path, new_string)
         \/ EigenVectorView_renderer_dir_edited(path, new_string)
         \/ EigenVectorView_renderer_dip_edited(path, new_string)
         \/ EigenVectorView_renderer_value_edited(path, new_string)

SenseEditOn(paths) ==
    \E path \in paths, new_string \in SenseStrings :
         \/ FaultPlaneDataView_renderer_sense_edited(path, new_string)
         \/ LineDataView_renderer_sense_edited(path, new_string)

StratEditOn(paths) ==
    \E path \in paths, new_string \in StratStrings :
         PlaneDataView_renderer_strat_edited(path, new_string)

Next ==
    \/ NumericEditOn(0..(MaxInitRows - 1))
    \/ SenseEditOn(0..(MaxInitRows - 1))
    \/ StratEditOn(0..(MaxInitRows - 1))
    \/ data_selection_changed

Spec == Init /\ [][Next]_vars

\* The edit handlers on a store of several rows: the view is constructed
\* with a store of up to MaxRows rows, and any of its rows is edited.
InitFrame ==
    /\ view \in Views
    /\ \E n \in 1..MaxRows, r \in {BlankRow(LayerType(view)), EdgeRow(view)} :
          store = [p \in 0..(n - 1) |->
                      IF p = 0 THEN r ELSE BlankRow(LayerType(view))]
    /\ highlight = FALSE
    /\ lyr_obj = "None"
    /\ cursor = NoCursor
    /\ timeouts = << >>
    /\ pc = "idle"
    /\ call = NoCall
    /\ ret = NotReturned
    /\ trace = << >>
    /\ edit_writes = 0
    /\ edit_redraws = 0
    /\ number = 0

NextFrame ==
    /\ edit_writes < MaxFrameWrites
    /\ \/ NumericEditOn(DOMAIN store)
       \/ SenseEditOn(DOMAIN store)
       \/ StratEditOn(DOMAIN store)

SpecFrame == InitFrame /\ [][NextFrame]_vars

\* ------------------------------------------------------- key navigation
AttributeError == [tag |-> "AttributeError", num |-> 0, str |-> << >>]

\* the key names the handler tests for, and one other key
KeyNames == {"Tab", "Esc", "Escape", "Return"}

set_layer_object(new_lyr_obj) ==
    /\ pc = "idle"
    /\ lyr_obj' = new_lyr_obj
    /\ call' = [name |-> "set_layer_object", path |-> 0, inp |-> << >>,
                inp_type |-> "", keyname |-> ""]
    /\ ret' = None
    /\ trace' = << >>
    /\ UNCHANGED <<number, view, store, highlight, cursor, timeouts, pc, edit_writes,
                   edit_redraws>>

\* add_feature(lyr_type, store): the main window appends a blank row
add_feature(lyr_type, st) == AppendRow(st, BlankRow(lyr_type))

\* tmodel.iter_next(tmodel.get_iter(path)): the next row, or -1 for None
iter_next(st, path) == IF path + 1 < NRows(st) THEN path + 1 ELSE -1

\* mutant: the row is appended whether or not a next row exists
titer_is_None_always(st, path) == TRUE

\* line 92: if titer is None
titer_is_None(st, path) == iter_next(st, path) = -1

\* what a call of on_key_pressed leaves behind
KeyDone(new_store, new_timeouts, events, value) ==
    /\ store' = new_store
    /\ timeouts' = new_timeouts
    /\ trace' = events
    /\ ret' = value
    /\ UNCHANGED <<number, view, highlight, lyr_obj, cursor, pc, edit_writes,
                   edit_redraws>>

on_key_pressed(keyname) ==
    /\ pc = "idle"
    /\ call' = [name |-> "on_key_pressed", path |-> 0, inp |-> << >>,
                inp_type |-> "", keyname |-> keyname]
    /\ IF cursor = NoCursor
       THEN \* get_cursor() gives (None, None): columns.index(None) raises
            KeyDone(store, timeouts, << >>, ValueError)
       ELSE
       LET path == cursor.path
           colnum == cursor.col
           schedule(events, st, p, next_column) ==
               IF keyname = "Tab"
               THEN /\ Len(timeouts) < MaxPending
                    /\ KeyDone(st,
                               Append(timeouts, [path |-> p, col |-> next_column,
                                                 editing |-> TRUE]),
                               events \o <<"timeout_add">>, None)
               ELSE KeyDone(st, timeouts, events, None)
       IN  IF keyname = "Tab" \/ keyname = "Esc"
           THEN IF colnum + 1 < NColumns(view)
                THEN schedule(<< >>, store, path, colnum + 1)
                ELSE IF titer_is_None(store, path)
                     THEN IF lyr_obj = "None"
                          THEN \* None has no get_layer_type
                               KeyDone(store, timeouts, << >>, AttributeError)
                          ELSE /\ NRows(store) < MaxRows
                               /\ LET st == add_feature(lyr_obj, store)
                                  IN  schedule(<<"add_feature">>, st,
                                               iter_next(st, path), 0)
                     ELSE schedule(<< >>, store, iter_next(store, path), 0)
           ELSE KeyDone(store, timeouts, << >>, None)

\* GLib runs the oldest timeout: treeview.set_cursor(path, next_column, True)
timeout_set_cursor ==
    /\ pc = "idle"
    /\ timeouts # << >>
    /\ cursor' = Head(timeouts)
    /\ timeouts' = Tail(timeouts)
    /\ call' = [name |-> "set_cursor", path |-> Head(timeouts).path,
                inp |-> << >>, inp_type |-> "", keyname |-> ""]
    /\ ret' = None
    /\ trace' = << >>
    /\ UNCHANGED <<number, view, store, highlight, lyr_obj, pc, edit_writes,
                   edit_redraws>>

\* the user puts the cursor on a cell
cursor_changed(path, col) ==
    /\ pc = "idle"
    /\ path \in DOMAIN store
    /\ col \in 0..(NColumns(view) - 1)
    /\ cursor' = [path |-> path, col |-> col, editing |-> FALSE]
    /\ call' = [name |-> "cursor_changed", path |-> path, inp |-> << >>,
                inp_type |-> "", keyname |-> ""]
    /\ ret' = None
    /\ trace' = << >>
    /\ UNCHANGED <<number, view, store, highlight, lyr_obj, timeouts, pc, edit_writes,
                   edit_redraws>>

NextNav ==
    \/ set_layer_object(LayerType(view))
    \/ \E keyname \in KeyNames : on_key_pressed(keyname)
    \/ timeout_set_cursor
    \/ \E path \in 0..(MaxRows - 1), col \in 0..4 : cursor_changed(path, col)

SpecNav == Init /\ [][NextNav]_vars

\* ------------------------------------------- the validators on their own
\* The validators are pure: SpecValidate starts with one pending call on an
\* enumerated text and runs it.
SeqsUpTo(S, n) == UNION {[1..k -> S] : k \in 0..n}

NumChars == {"-", ",", ".", "0", "1", "3", "6", "9"}
NumTexts ==
    SeqsUpTo(NumChars, MaxLen) \cup
    { <<"n", "a", "n">>, <<"i", "n", "f">>, <<"-", "i", "n", "f">>,
      <<"x", "y", "z">>, <<"1", "e", "1", "9">>, <<"3", "7", "0">>, <<"4", "0", "0">>,
      <<"4", "5", ",", "5">>, <<"9", "5">>, <<"1", ".", "5">>,
      <<"7", "2", "0">> }

SenseChars == {"u", "k", "p", "d", "n", "e", "x", "s", "i",
               "0", "1", "2", "3", "4", "5", "-"}
SenseTexts == SeqsUpTo(SenseChars, MaxSenseLen)

InpTypes == {"dir", "dip", "vector", "angle"}

InitValidate ==
    /\ view = "PlaneDataView"
    /\ store = [p \in 0..0 |-> BlankRow("plane")]
    /\ highlight = FALSE
    /\ lyr_obj = "None"
    /\ cursor = NoCursor
    /\ timeouts = << >>
    /\ pc = "called"
    /\ \/ \E t \in NumTexts, k \in InpTypes :
             call = [name |-> "validate_numeric_input", path |-> 0, inp |-> t,
                     inp_type |-> k, keyname |-> ""]
       \/ \E t \in SenseTexts :
             call = [name |-> "validate_sense", path |-> 0, inp |-> t,
                     inp_type |-> "", keyname |-> ""]
    /\ ret = NotReturned
    /\ trace = << >>
    /\ edit_writes = 0
    /\ edit_redraws = 0
    /\ number = 0

\* run the pending call: it returns a value, or never returns
Returns(value) ==
    /\ pc' = IF value = NotReturned THEN "hung" ELSE "idle"
    /\ ret' = value
    /\ UNCHANGED <<number, view, store, highlight, lyr_obj, cursor, timeouts, call,
                   trace, edit_writes, edit_redraws, number>>

Run_validate_numeric_input ==
    /\ pc = "called"
    /\ call.name = "validate_numeric_input"
    /\ Returns(validate_numeric_input(call.inp, call.inp_type))

Run_validate_sense ==
    /\ pc = "called"
    /\ call.name = "validate_sense"
    /\ Returns(validate_sense(call.inp))

NextValidate ==
    \/ Run_validate_numeric_input
    \/ Run_validate_sense

SpecValidate == InitValidate /\ [][NextValidate]_vars

\* --------------------------------------------- the sense column on its own
\* The two views with a sense column, their renderer_sense_edited handlers
\* called with every one-character text (the digits among them), every
\* sense code, a negative and a two-digit number and an unknown word.
SenseEditTexts ==
    {<<c>> : c \in SenseChars} \cup val_inp
    \cup {<<"-", "1">>, <<"1", "0">>, <<"x", "y", "z">>}

InitSense ==
    /\ Init
    /\ view \in {"FaultPlaneDataView", "LineDataView"}
    /\ highlight = FALSE

NextSense ==
    \E path \in DOMAIN store, new_string \in SenseEditTexts :
        \/ FaultPlaneDataView_renderer_sense_edited(path, new_string)
        \/ LineDataView_renderer_sense_edited(path, new_string)

SpecSense == InitSense /\ [][NextSense]_vars

\* ---------------------------------------------------------------- display
\* Python's round(number, ndigits) for a stored number counted in units of
\* 1/FineUnit: the nearest multiple of 10^-ndigits, a tie going to the even
\* one.  The result has at most ndigits <= Prec decimals: a Float.
Round(n, ndigits) ==
    LET q == FineUnit \div (10 ^ ndigits)
        k == n \div q
        r == n % q
        up == 2 * r > q \/ (2 * r = q /\ k % 2 = 1)
    IN  Float((IF up THEN k + 1 ELSE k) * (Unit \div (10 ^ ndigits)))

truncate(n) == Round(n, 1)
truncate_vector(n) == Round(n, 3)

\* the decimal digits of a natural number
RECURSIVE ToDigits(_)
ToDigits(n) ==
    IF n < 10 THEN <<Digits[n + 1]>>
    ELSE ToDigits(n \div 10) \o <<Digits[(n % 10) + 1]>>

\* the digits of n, zero-padded on the left to width w
RECURSIVE Padded(_, _)
Padded(n, w) ==
    IF w = 0 THEN << >>
    ELSE Padded(n \div 10, w - 1) \o <<Digits[(n % 10) + 1]>>

\* trailing zeros dropped, one digit kept
RECURSIVE StripZeros(_)
StripZeros(s) ==
    IF Len(s) > 1 /\ s[Len(s)] = "0"
    THEN StripZeros(SubSeq(s, 1, Len(s) - 1))
    ELSE s

\* mutant: the text is written without its decimal point
format_no_point(y) ==
    LET mag == IF y.num < 0 THEN -y.num ELSE y.num
    IN  ToDigits(mag \div Unit) \o StripZeros(Padded(mag % Unit, Prec))

\* "{0}".format(y) for a float y: repr(y), the shortest text that parses
\* back to y: sign, whole part, ".", and the decimals without trailing zeros.
\* (The magnitudes of this model are printed without an exponent.)
format(y) ==
    CASE y.tag = "nan" -> <<"n", "a", "n">>
      [] y.tag = "inf" ->
           IF y.num < 0 THEN <<"-", "i", "n", "f">> ELSE <<"i", "n", "f">>
      [] OTHER ->
           LET mag == IF y.num < 0 THEN -y.num ELSE y.num
           IN  (IF y.num < 0 THEN <<"-">> ELSE << >>)
               \o ToDigits(mag \div Unit) \o <<".">>
               \o StripZeros(Padded(mag % Unit, Prec))

\* what the cell data function of a column of kind k shows for a number
Displayed(n, k) == IF k = "vector" THEN truncate_vector(n) ELSE truncate(n)

\* the upper bound of each kind, and the stored numbers of that kind that
\* SpecFormat displays: those within two tenths of either end of the range
\* (dip-directions stop short of 360)
Hi(k) ==
    CASE k = "dir" -> 360 * FineUnit - 1
      [] k = "dip" -> 90 * FineUnit
      [] k = "vector" -> 1 * FineUnit
      [] k = "angle" -> 360 * FineUnit
Window == 2 * (FineUnit \div 10)
Numbers(k) == (0..Window) \cup ((Hi(k) - Window)..Hi(k))

InitFormat ==
    /\ view = "EigenVectorView"
    /\ store = [p \in 0..0 |-> BlankRow("eigenvector")]
    /\ highlight = FALSE
    /\ lyr_obj = "None"
    /\ cursor = NoCursor
    /\ timeouts = << >>
    /\ pc = "stored"
    /\ \E k \in InpTypes :
          /\ call = [name |-> "", path |-> 0, inp |-> << >>,
                     inp_type |-> k, keyname |-> ""]
          /\ number \in Numbers(k)
    /\ ret = NotReturned
    /\ trace = << >>
    /\ edit_writes = 0
    /\ edit_redraws = 0

\* the lambda given to set_cell_data_func: the cell's text property is set
\* to the formatted, rounded number
cell_data_func ==
    /\ pc = "stored"
    /\ call' = [call EXCEPT !.name = "cell_data_func",
                            !.inp = format(Displayed(number, call.inp_type))]
    /\ pc' = "shown"
    /\ UNCHANGED <<number, view, store, highlight, lyr_obj, cursor, timeouts,
                   ret, trace, edit_writes, edit_redraws>>

\* the displayed text is committed again as it is: the edit handler hands
\* it to validate_numeric_input with the kind of its column
recommit ==
    /\ pc = "shown"
    /\ call' = [call EXCEPT !.name = "validate_numeric_input"]
    /\ pc' = "called"
    /\ UNCHANGED <<number, view, store, highlight, lyr_obj, cursor, timeouts,
                   ret, trace, edit_writes, edit_redraws>>

NextFormat ==
    \/ cell_data_func
    \/ recommit
    \/ Run_validate_numeric_input

SpecFormat == InitFormat /\ [][NextFormat]_vars

\* ================================================================= claims
\* what each column of a view holds, from the column lists of the __init__s
FieldKind(v, c) ==
    CASE c = 0 -> "dir"
      [] c = 1 -> "dip"
      [] c = 2 /\ v = "FaultPlaneDataView" -> "dir"
      [] c = 3 /\ v = "FaultPlaneDataView" -> "dip"
      [] c = 2 /\ v = "SmallCircleDataView" -> "angle"
      [] c = 2 /\ v = "EigenVectorView" -> "vector"
      [] OTHER -> "text"

\* the validated edit handlers, and the numeric ones among them
ValidatedHandlers ==
    {"renderer_dir_edited", "renderer_dip_edited", "renderer_ldir_edited",
     "renderer_ldip_edited", "renderer_angle_edited", "renderer_value_edited",
     "renderer_sense_edited"}
NumericHandlers == ValidatedHandlers \ {"renderer_sense_edited"}
EditHandlers == ValidatedHandlers \cup {"renderer_strat_edited"}

\* the column a handler of view v writes
HandlerColumn(v, name) ==
    CASE name = "renderer_dir_edited" -> 0
      [] name = "renderer_dip_edited" -> 1
      [] name = "renderer_ldir_edited" -> 2
      [] name = "renderer_ldip_edited" -> 3
      [] name = "renderer_sense_edited" /\ v = "FaultPlaneDataView" -> 4
      [] OTHER -> 2

\* a finite float within lo..hi (hi excluded when open)
Within(x, lo, hi, open) ==
    /\ x.tag = "float"
    /\ lo * Unit <= x.num
    /\ IF open THEN x.num < hi * Unit ELSE x.num <= hi * Unit

KindWithin(x, kind) ==
    CASE kind = "dir" -> Within(x, 0, 360, TRUE)
      [] kind = "dip" -> Within(x, 0, 90, FALSE)
      [] kind = "angle" -> Within(x, 0, 360, FALSE)
      [] kind = "vector" -> Within(x, 0, 1, FALSE)
      [] OTHER -> TRUE

\* the text parses as a number: it is not empty and float() accepts it
Parses(inp) == inp # << >> /\ ParseFloat(Replace(inp)) # ValueError
Parsed(inp) == ParseFloat(Replace(inp))

\* C1 (as claimed): in every reachable state of the edit specification every
\* dip-direction field lies in [0, 360), every dip field in [0, 90], every
\* opening angle in [0, 360] and every eigenvalue in [0, 1].
C1_StoreWithinBounds ==
    \A p \in DOMAIN store : \A c \in DOMAIN store[p] :
        KindWithin(store[p][c], FieldKind(view, c))

\* the validator the handler `name` hands its text to
HandlerValidator(name, inp) ==
    CASE name \in {"renderer_dir_edited", "renderer_ldir_edited"} ->
           validate_numeric_input(inp, "dir")
      [] name \in {"renderer_dip_edited", "renderer_ldip_edited"} ->
           validate_numeric_input(inp, "dip")
      [] name = "renderer_angle_edited" -> validate_numeric_input(inp, "angle")
      [] name = "renderer_value_edited" -> validate_numeric_input(inp, "vector")
      [] name = "renderer_sense_edited" -> validate_sense(inp)

C3_DirInHalfOpenRange ==
    (/\ call.name = "validate_numeric_input"
     /\ call.inp_type = "dir"
     /\ Parses(call.inp)
     /\ Parsed(call.inp).tag = "float"
     /\ pc # "called")
    => (pc = "idle" /\ Within(ret, 0, 360, TRUE))

\* C4 (as claimed): validate_numeric_input(inp, "dir") on a text that parses
\* to a number v (negative, in range or above 360; nan is left aside)
\* returns; what it returns is a number, which for a finite v differs from v
\* by a whole multiple of 360 and is v itself when v lies in [0, 360).
C4_DirWrapsByMultiplesOf360 ==
    (/\ call.name = "validate_numeric_input"
     /\ call.inp_type = "dir"
     /\ Parses(call.inp)
     /\ Parsed(call.inp).tag \in {"float", "inf"}
     /\ pc # "called")
    => (/\ pc = "idle"
        /\ ret.tag \in {"float", "inf"}
        /\ Parsed(call.inp).tag = "float"
           => (/\ ret.tag = "float"
               /\ (ret.num - Parsed(call.inp).num) % (360 * Unit) = 0
               /\ (Within(Parsed(call.inp), 0, 360, TRUE)
                   => ret = Parsed(call.inp))))

\* the upper bound of a bounded kind
UpperBound(kind) ==
    CASE kind = "dip" -> 90 [] kind = "vector" -> 1 [] kind = "angle" -> 360

\* C5 (as claimed): for dip, vector and angle, on a non-empty text that parses
\* to v, the result is v when lo <= v <= hi and None otherwise.
C5_BoundedKindsAcceptExactlyTheRange ==
    (/\ call.name = "validate_numeric_input"
     /\ call.inp_type \in {"dip", "vector", "angle"}
     /\ Parses(call.inp)
     /\ pc # "called")
    => (/\ pc = "idle"
        /\ ret = IF Within(Parsed(call.inp), 0, UpperBound(call.inp_type), FALSE)
                 THEN Parsed(call.inp) ELSE None)

\* the sense codes by index, 0..4
SenseCodes == << <<"u", "k">>, <<"u", "p">>, <<"d", "n">>, <<"d", "e", "x">>,
                 <<"s", "i", "n">> >>

\* C6: validate_sense returns, for a text that int() reads as n, the code of
\* index n when 0 <= n <= 4 and None for any other n; for any other text,
\* the text itself when it is "", "uk", "up", "dn", "dex" or "sin", and None
\* otherwise.
C6_ValidateSenseTable ==
    (call.name = "validate_sense" /\ pc # "called")
    => (/\ pc = "idle"
        /\ LET n == ParseInt(call.inp)
           IN  IF n # ValueError
               THEN ret = IF n.num \in 0..4 THEN Str(SenseCodes[n.num + 1])
                          ELSE None
               ELSE ret = IF call.inp \in {<< >>} \cup {SenseCodes[i] : i \in 1..5}
                          THEN Str(call.inp) ELSE None)

\* C6 witness: validate_sense("3") has returned "dex"
C6_Witness ==
    /\ call.name = "validate_sense"
    /\ call.inp = <<"3">>
    /\ pc = "idle"
    /\ ret = Str(<<"d", "e", "x">>)

\* C7: after a numeric edit handler (they cover the kinds dir, dip, angle and
\* vector) was called with the empty text, it has returned 0, the value
\* validate_numeric_input gave it; the cell it edits holds 0; and the store
\* write was followed by one redraw: the empty text is committed, not
\* rejected.
C7_EmptyTextCommitsZero ==
    (call.name \in NumericHandlers /\ call.inp = << >>)
    => (/\ pc = "idle"
        /\ ret = Float(0)
        /\ store[call.path][HandlerColumn(view, call.name)] = Float(0)
        /\ trace = <<"store", "redraw">>)

\* C7 witness: the empty text was committed to the opening angle of a small
\* circle whose other fields are still on the edge of their ranges
C7_Witness ==
    /\ view = "SmallCircleDataView"
    /\ call.name = "renderer_angle_edited"
    /\ call.inp = << >>
    /\ ret = Float(0)
    /\ store[call.path][2] = Float(0)
    /\ store[call.path][1] = Float(90 * Unit)
    /\ trace = <<"store", "redraw">>

\* C9: redraw calls made by edit handlers and store writes made by them are
\* equal in number; the last edit call either wrote nothing and drew nothing
\* or wrote the store and then called redraw once; and it did the latter
\* whenever its validator gave a value or it was a stratigraphy edit.
C9_EveryCommitRedrawsOnce ==
    /\ edit_redraws = edit_writes
    /\ (call.name \in EditHandlers /\ pc = "idle")
       => (/\ trace \in {<< >>, <<"store", "redraw">>}
           /\ (\/ call.name = "renderer_strat_edited"
               \/ HandlerValidator(call.name, call.inp) # None)
              => trace = <<"store", "redraw">>)

\* C9 witness: the second store write of a behaviour, a stratigraphy edit
C9_Witness ==
    /\ call.name = "renderer_strat_edited"
    /\ trace = <<"store", "redraw">>
    /\ edit_writes = 2
    /\ edit_redraws = 2

\* C10: a step that is a call of data_selection_changed calls redraw once
\* when get_highlight() is True and not at all otherwise, and leaves the
\* store (and the edit handlers' counts) as it was.
C10_SelectionChangeRedrawsIffHighlight ==
    [][(call'.name = "data_selection_changed")
       => (/\ trace' = IF highlight THEN <<"redraw">> ELSE << >>
           /\ store' = store
           /\ edit_writes' = edit_writes
           /\ edit_redraws' = edit_redraws)]_vars

\* C10 witness: the selection changed with highlighting on, after an edit
C10_Witness ==
    /\ call.name = "data_selection_changed"
    /\ highlight = TRUE
    /\ trace = <<"redraw">>
    /\ edit_writes = 1

\* the number of add_feature calls in a trace
Requests(tr) == Cardinality({i \in 1..Len(tr) : tr[i] = "add_feature"})

\* the cursor is on the last visible column of a row with no successor
CursorAtEnd ==
    /\ cursor.col = NColumns(view) - 1
    /\ cursor.path = NRows(store) - 1

\* what C8 says of a step that is a Tab key press
TabAppendsExactlyAtEnd ==
    /\ (Requests(trace') > 0) <=> CursorAtEnd
    /\ CursorAtEnd
       => (/\ trace' = <<"add_feature", "timeout_add">>
           /\ store' = add_feature(LayerType(view), store)
           /\ timeouts' = Append(timeouts, [path |-> cursor.path + 1, col |-> 0,
                                            editing |-> TRUE]))

\* C8 (as claimed): on every Tab key press add_feature is requested exactly
\* when the cursor is on the last visible column of the last row; then it is
\* requested once, before the focus move is scheduled, and the move goes to
\* the first column of the appended row, in edit mode.
C8_TabAppendsAtEnd ==
    [][(call'.name = "on_key_pressed" /\ call'.keyname = "Tab")
       => TabAppendsExactlyAtEnd]_vars

\* C8 (amended): the same, for the Tab key presses that happen once a layer
\* object has been set with set_layer_object.
C8_TabAppendsAtEndWithLayer ==
    [][(call'.name = "on_key_pressed" /\ call'.keyname = "Tab"
        /\ lyr_obj # "None")
       => TabAppendsExactlyAtEnd]_vars

\* C8 witness: Tab was pressed on the last cell of the only row, with a layer
\* object set: a row was appended and the move to its first cell is pending
C8_Witness ==
    /\ call.name = "on_key_pressed"
    /\ call.keyname = "Tab"
    /\ lyr_obj # "None"
    /\ cursor = [path |-> 0, col |-> NColumns(view) - 1, editing |-> FALSE]
    /\ trace = <<"add_feature", "timeout_add">>
    /\ NRows(store) = 2
    /\ store[1] = BlankRow(lyr_obj)
    /\ timeouts = <<[path |-> 1, col |-> 0, editing |-> TRUE]>>

\* C11: round trip of the display.  For a stored number within the bounds of
\* its kind, the text the cell shows is the text of truncate(number) (of
\* truncate_vector(number) for the kind vector), and once that text has been
\* validated again as a text of the same kind, the call has returned that
\* same rounded value: it is never rejected and never changed.
C11_DisplayedTextRevalidatesToItself ==
    /\ pc \in {"shown", "called", "idle"}
       => call.inp = format(Displayed(number, call.inp_type))
    /\ pc # "hung"
    /\ (pc = "idle" /\ call.name = "validate_numeric_input")
       => ret = Displayed(number, call.inp_type)

\* C11 witness: a dip-direction below 360 that is displayed as "360.0" has
\* been validated again, and the call returned 360.0
C11_Witness ==
    /\ pc = "idle"
    /\ call.name = "validate_numeric_input"
    /\ call.inp_type = "dir"
    /\ number < 360 * FineUnit
    /\ call.inp = <<"3", "6", "0", ".", "0">>
    /\ ret = Float(360 * Unit)

\* C12: a key press reported as "Esc" or as "Escape" is a no-op at every
\* cursor position: add_feature is not called, the store keeps its rows and
\* no cursor move is scheduled.
C12_EscapeIsNoOp ==
    [][(call'.name = "on_key_pressed" /\ call'.keyname \in {"Esc", "Escape"})
       => (/\ Requests(trace') = 0
           /\ store' = store
           /\ timeouts' = timeouts)]_vars

\* C13: frame of an edit commit.  A step of an edit handler called for
\* (path, column c) keeps the rows of the store and the columns of every
\* row, changes no field other than the one at (path, c), and calls
\* add_feature never.
C13_EditChangesOnlyItsField ==
    [][(call'.name \in EditHandlers)
       => (/\ DOMAIN store' = DOMAIN store
           /\ \A p \in DOMAIN store :
                 /\ DOMAIN store'[p] = DOMAIN store[p]
                 /\ \A c \in DOMAIN store[p] :
                       (p # call'.path \/ c # HandlerColumn(view, call'.name))
                       => store'[p][c] = store[p][c]
           /\ Requests(trace') = 0)]_vars

\* C13 witness: an edit was committed to the second row of a store of
\* several rows, and the first row still holds what it was constructed with
C13_Witness ==
    /\ call.name \in EditHandlers
    /\ call.path = 1
    /\ trace = <<"store", "redraw">>
    /\ NRows(store) > 1
    /\ store[1] # BlankRow(LayerType(view))
    /\ store[0] = EdgeRow(view)

\* C14: a call of validate_numeric_input returns, for every text and kind:
\* it is never left in its loop, and what it returns is a number or None,
\* not an exception.
C14_ValidateNumericReturns ==
    call.name = "validate_numeric_input"
    => (/\ pc # "hung"
        /\ pc = "idle" => ret.tag \in {"float", "huge", "inf", "nan", "None"})

\* the sense field of row p of a view with a sense column
SenseField(p) ==
    store[p][IF view = "FaultPlaneDataView" THEN 4 ELSE 2]

====
